---- MODULE Spec2Model ----
(***************************************************************************)
(* A model of influxdb_cpp's single-header client, include/influxdb.hpp:   *)
(* class metric (line-protocol encoding) and class influxdb_client (the    *)
(* buffered writer on top of a libcurl multi handle).                      *)
(*                                                                         *)
(* Text is a sequence of one-character strings, so that byte lengths and   *)
(* concatenation are those of std::string.  libcurl is the environment:    *)
(* each call into it is a nondeterministic choice over the results the     *)
(* library documents for that call.                                        *)
(***************************************************************************)
EXTENDS Integers, Sequences, FiniteSets, TLC

(* ------------------------------ bounds -------------------------------- *)

\* calls the caller makes on one client in one run
MaxCalls == 5
\* a small flush threshold: one line stays below it, two lines reach it
SmallBuffer == 24

\* influxdb_client's default buffer_size
DefaultBufferSize == 2048

(* ------------------------------- text --------------------------------- *)

Digits == <<"0", "1", "2", "3", "4", "5", "6", "7", "8", "9">>

\* fmt's "{}" of an unsigned integer: its decimal digits
RECURSIVE FormatUInt(_)
FormatUInt(n) ==
    IF n < 10 THEN <<Digits[n + 1]>>
    ELSE FormatUInt(n \div 10) \o <<Digits[(n % 10) + 1]>>

\* (mutant) the backslash is escaped as well
RECURSIVE EscapeQuotesAndBackslashes(_)
EscapeQuotesAndBackslashes(s) ==
    IF s = <<>> THEN <<>>
    ELSE (IF Head(s) \in {"\"", "\\"} THEN <<"\\", Head(s)>> ELSE <<Head(s)>>)
         \o EscapeQuotesAndBackslashes(Tail(s))

\* std::regex_replace(val, quote_re, "\\\""): every double quote gets a backslash
RECURSIVE EscapeQuotes(_)
EscapeQuotes(s) ==
    IF s = <<>> THEN <<>>
    ELSE (IF Head(s) = "\"" THEN <<"\\", "\"">> ELSE <<Head(s)>>) \o EscapeQuotes(Tail(s))

(* ------------------------------ metric -------------------------------- *)

Precisions == {"nano", "micro", "milli", "second", "minute", "hour"}

\* system_clock::now() at construction.  The time since the epoch is a count
\* of nanoseconds, kept as whole seconds and the nanoseconds beyond them
\* (0 .. 999999999): the count of an instant a minute or more after the epoch
\* does not fit TLC's 32-bit integers.
Instants == {[sec |-> 1, nsec |-> 500000000]}

\* metric::metric
NewMetric(measurement, now) ==
    [measurement |-> measurement, tags |-> <<>>, fields |-> <<>>, timestamp |-> now]

\* metric::add_tag<T>: "{}={}" with the value's own text
add_tag(m, key, val) == [m EXCEPT !.tags = Append(@, key \o <<"=">> \o val)]

\* metric::add_field<T>: "{}={}" with the value's own text
add_field(m, key, val) == [m EXCEPT !.fields = Append(@, key \o <<"=">> \o val)]

\* metric::add_field(const std::string&) and (const char*): quoted, quotes escaped
add_field_string(m, key, val) ==
    [m EXCEPT !.fields = Append(@, key \o <<"=", "\"">> \o EscapeQuotes(val) \o <<"\"">>)]

\* (mutant) the count is rounded to the nearest unit
get_timestamp_rounding(m, p) ==
    LET t == m.timestamp
    IN  CASE p = "nano"   -> t.sec * 1000000000 + t.nsec
          [] p = "micro"  -> t.sec * 1000000 + (t.nsec + 500) \div 1000
          [] p = "milli"  -> t.sec * 1000 + (t.nsec + 500000) \div 1000000
          [] p = "second" -> t.sec + (t.nsec + 500000000) \div 1000000000
          [] p = "minute" -> (t.sec + 30) \div 60
          [] p = "hour"   -> (t.sec + 1800) \div 3600
          [] OTHER        -> t.sec * 1000000000 + t.nsec

\* metric::get_timestamp: duration_cast is the integer division of the
\* nanosecond count sec * 10^9 + nsec by the nanoseconds of the unit, truncating.
\* For a unit that divides a second that is sec * (units in a second) +
\* nsec / (nanoseconds in the unit); for a unit of whole seconds it is
\* sec / (seconds in the unit).
get_timestamp(m, p) ==
    LET t == m.timestamp
    IN  CASE p = "nano"   -> t.sec * 1000000000 + t.nsec
          [] p = "micro"  -> t.sec * 1000000 + t.nsec \div 1000
          [] p = "milli"  -> t.sec * 1000 + t.nsec \div 1000000
          [] p = "second" -> t.sec
          [] p = "minute" -> t.sec \div 60
          [] p = "hour"   -> t.sec \div 3600
          [] OTHER        -> t.sec * 1000000000 + t.nsec

\* the for loop over tags: ",{}" each
RECURSIVE WriteTags(_)
WriteTags(tags) ==
    IF tags = <<>> THEN <<>> ELSE <<",">> \o Head(tags) \o WriteTags(Tail(tags))

\* the while loop over the fields after the first: ",{}" each
RECURSIVE WriteMoreFields(_)
WriteMoreFields(fields) ==
    IF fields = <<>> THEN <<>> ELSE <<",">> \o Head(fields) \o WriteMoreFields(Tail(fields))

\* (mutant) the iterator is not advanced past the first field before the loop
LineOfRepeatingFirst(m, first, rest, p) ==
    m.measurement \o WriteTags(m.tags) \o <<" ">> \o first
        \o WriteMoreFields(<<first>> \o rest)
        \o <<" ">> \o FormatUInt(get_timestamp(m, p)) \o <<"\n">>

\* metric::get_line once *itr has produced `first` and the loop has seen `rest`
LineOf(m, first, rest, p) ==
    m.measurement \o WriteTags(m.tags) \o <<" ">> \o first \o WriteMoreFields(rest)
        \o <<" ">> \o FormatUInt(get_timestamp(m, p)) \o <<"\n">>

\* What a read through fields.begin() of an empty vector can give back
GarbageFields == {<<"?">>}

\* metric::get_line.  It dereferences fields.begin() unconditionally: with no
\* field that is undefined behaviour, and the call either brings the process
\* down or goes on with whatever the read produced.  The result is the set of
\* outcomes: [crash |-> TRUE] or [crash |-> FALSE, line |-> text].
get_line(m, p) ==
    IF m.fields # <<>>
    THEN {[crash |-> FALSE, line |-> LineOf(m, Head(m.fields), Tail(m.fields), p)]}
    ELSE {[crash |-> TRUE, line |-> <<>>]}
         \cup {[crash |-> FALSE, line |-> LineOf(m, g, <<>>, p)] : g \in GarbageFields}

\* The metrics the caller builds (main.cpp builds them the same way): one with
\* no field at all, one with a tag and a field
Metrics ==
    UNION {
      { NewMetric(<<"m">>, t),
        add_field(add_tag(NewMetric(<<"m">>, t), <<"t">>, <<"x">>), <<"a">>, <<"1">>) }
      : t \in Instants }

(* -------------------------- libcurl handles --------------------------- *)

CURLE_OK == "CURLE_OK"
CURLE_COULDNT_CONNECT == "CURLE_COULDNT_CONNECT"

\* curl_easy_strerror
curl_easy_strerror(result) ==
    IF result = CURLE_OK THEN "No error" ELSE "Couldn't connect to server"

\* An easy handle right after curl_easy_init and the three curl_easy_setopt
\* calls; COPYPOSTFIELDS copies the buffer's bytes into the handle.
NewHandle(body) ==
    [state |-> "Created", body |-> body, result |-> "none", trace |-> <<"Created">>]

\* The ids (positions in creation order) of the handles in `state`
IdsIn(hs, state) == {i \in DOMAIN hs : hs[i].state = state}

\* A set of ids as a sequence, lowest first: curl_multi_perform walks the
\* handles in the order they were added
RECURSIVE InOrder(_)
InOrder(ids) ==
    IF ids = {} THEN <<>>
    ELSE LET lo == CHOOSE i \in ids : \A j \in ids : i <= j
         IN  <<lo>> \o InOrder(ids \ {lo})

\* One handle moving to `state`
MoveTo(h, state) == [h EXCEPT !.state = state, !.trace = Append(@, state)]

\* curl_multi_add_handle, accepted: the handle is in the multi handle and alive
curl_multi_add_handle(hs, id) == [hs EXCEPT ![id] = MoveTo(@, "Active")]

\* curl_multi_perform: the transfers in `done` finish in this step, those in
\* `failed` without success; each leaves a CURLMSG_DONE message, and the count
\* written through running_handles is the number still alive.
curl_multi_perform(c, done, failed) ==
    LET hs == [i \in DOMAIN c.handles |->
                 IF i \in done
                 THEN [MoveTo(c.handles[i], "Completed") EXCEPT
                         !.result = IF i \in failed THEN CURLE_COULDNT_CONNECT
                                    ELSE CURLE_OK]
                 ELSE c.handles[i]]
    IN  [c EXCEPT !.handles = hs,
                  !.msgq = @ \o InOrder(done),
                  !.running_handles = Cardinality(IdsIn(hs, "Active"))]

\* (mutant) a failed transfer is put back into the multi handle instead
Resubmit(hs, id) ==
    [hs EXCEPT ![id] = MoveTo(@, IF @.result # CURLE_OK THEN "Active" ELSE "Released")]

\* curl_multi_remove_handle followed by curl_easy_cleanup
RemoveAndCleanup(hs, id) == [hs EXCEPT ![id] = MoveTo(@, "Released")]

(* -------------------------- influxdb_client --------------------------- *)

VARIABLES
    ts_precision,          \* precision given to the constructor
    max_buffer,            \* buffer_size given to the constructor
    save_failures,         \* save_failures given to the constructor
    post_data,             \* the pending buffer
    failed_transfers,      \* the failure descriptions
    running_handles,       \* the active-request count
    prev_running_handles,  \* its value at the start of the last update
    cmsg,                  \* the last message pointer update read
    mhandle,               \* the multi handle: "valid" until curl_multi_cleanup
    handles,               \* every easy handle created, in creation order
    msgq,                  \* the multi handle's queue of completion messages
    crashed,               \* the process was brought down
    last,                  \* the last call: what it was and how it ended
    lines,                 \* history: every line appended, concatenated
    ncalls,                \* history: calls made so far
    metric                 \* the metric object the caller is building, if any

vars == <<ts_precision, max_buffer, save_failures, post_data, failed_transfers,
          running_handles, prev_running_handles, cmsg, handles, msgq, crashed,
          last, lines, ncalls, mhandle, metric>>

\* prev_running_handles and cmsg are not initialised by the constructor
Indeterminate == "indeterminate"
NULL == "nullptr"

BufferSizes == {SmallBuffer, DefaultBufferSize}

\* No metric object is being built
NoMetric == "none"

\* The object's mutable members and the multi handle, as one value
Self ==
    [post_data |-> post_data, failed_transfers |-> failed_transfers,
     running_handles |-> running_handles,
     prev_running_handles |-> prev_running_handles, cmsg |-> cmsg,
     handles |-> handles, msgq |-> msgq, outcome |-> "return"]

\* Handles that have been registered with the multi handle at some time
Registered(hs) == {i \in DOMAIN hs : Len(hs[i].trace) >= 2}

\* The call `op` on argument `arg` ends in `c`, returning `ret`
Ends(op, arg, c, ret) ==
    /\ post_data' = c.post_data
    /\ failed_transfers' = c.failed_transfers
    /\ running_handles' = c.running_handles
    /\ prev_running_handles' = c.prev_running_handles
    /\ cmsg' = c.cmsg
    /\ handles' = c.handles
    /\ msgq' = c.msgq
    /\ last' = [op |-> op, arg |-> arg, outcome |-> c.outcome, ret |-> ret]
    /\ UNCHANGED <<ts_precision, max_buffer, save_failures, mhandle, metric>>

\* The precisions the clients of this model are constructed with (main.cpp: milli)
ClientPrecisions == {"milli"}

\* influxdb_client::influxdb_client with curl_multi_init succeeding
Init ==
    /\ ts_precision \in ClientPrecisions
    /\ max_buffer \in BufferSizes
    /\ save_failures \in BOOLEAN
    /\ post_data = <<>>
    /\ failed_transfers = <<>>
    /\ running_handles = 0
    /\ prev_running_handles = Indeterminate
    /\ cmsg = Indeterminate
    /\ handles = <<>>
    /\ msgq = <<>>
    /\ crashed = FALSE
    /\ last = [op |-> "constructor", arg |-> "none", outcome |-> "return", ret |-> "void"]
    /\ lines = <<>>
    /\ ncalls = 0
    /\ mhandle = "valid"
    /\ metric = NoMetric

\* (mutant) an if where the do-while is: one message per update
DrainOnce(c, save) ==
    IF c.msgq = <<>>
    THEN [c EXCEPT !.cmsg = NULL]
    ELSE LET id == Head(c.msgq)
             result == c.handles[id].result
         IN  [c EXCEPT !.msgq = Tail(@),
                       !.cmsg = id,
                       !.failed_transfers =
                           IF save /\ result # CURLE_OK
                           THEN Append(@, curl_easy_strerror(result))
                           ELSE @,
                       !.handles = RemoveAndCleanup(@, id)]

\* (mutant) the loop without the save_failures test
RECURSIVE DrainLoopAlwaysSaving(_, _)
DrainLoopAlwaysSaving(c, save) ==
    IF c.msgq = <<>>
    THEN [c EXCEPT !.cmsg = NULL]
    ELSE LET id == Head(c.msgq)
             result == c.handles[id].result
         IN  DrainLoopAlwaysSaving(
               [c EXCEPT !.msgq = Tail(@),
                         !.cmsg = id,
                         !.failed_transfers =
                             IF result # CURLE_OK
                             THEN Append(@, curl_easy_strerror(result))
                             ELSE @,
                         !.handles = RemoveAndCleanup(@, id)],
               save)

\* The do-while loop of update: read a message, record its failure, remove and
\* clean up its handle, until curl_multi_info_read returns nullptr
RECURSIVE DrainLoop(_, _)
DrainLoop(c, save) ==
    IF c.msgq = <<>>
    THEN [c EXCEPT !.cmsg = NULL]
    ELSE LET id == Head(c.msgq)
             result == c.handles[id].result
         IN  DrainLoop(
               [c EXCEPT !.msgq = Tail(@),
                         !.cmsg = id,
                         !.failed_transfers =
                             IF save /\ result # CURLE_OK
                             THEN Append(@, curl_easy_strerror(result))
                             ELSE @,
                         !.handles = RemoveAndCleanup(@, id)],
               save)

\* The outcomes of curl_multi_perform's return code
PerformCodes == {"CURLM_OK", "CURLM_OUT_OF_MEMORY"}

\* (mutant) a transfer that did not succeed is raised as an error
update_raising_failures(c, save, done, failed, rcode) ==
    LET c1 == [c EXCEPT !.prev_running_handles = c.running_handles]
        c2 == curl_multi_perform(c1, done, failed)
    IN  IF rcode # "CURLM_OK"
        THEN [c2 EXCEPT !.outcome = "throw"]
        ELSE IF c2.running_handles < c2.prev_running_handles
             THEN [DrainLoop(c2, save) EXCEPT
                     !.outcome = IF failed # {} THEN "throw" ELSE "return"]
             ELSE c2

\* influxdb_client::update
update(c, save, done, failed, rcode) ==
    LET c1 == [c EXCEPT !.prev_running_handles = c.running_handles]
        c2 == curl_multi_perform(c1, done, failed)
    IN  IF rcode # "CURLM_OK"
        THEN [c2 EXCEPT !.outcome = "throw"]
        ELSE IF c2.running_handles < c2.prev_running_handles
             THEN DrainLoop(c2, save)
             ELSE c2

\* The outcomes of curl_easy_init and curl_multi_add_handle in write_metrics
SubmitOutcomes == {"added", "easy_init_null", "add_rejected"}

\* (mutant) the buffer is not cleared after the request is registered
write_metrics_keeping_buffer(c, o) ==
    IF o = "easy_init_null"
    THEN [c EXCEPT !.outcome = "throw"]
    ELSE LET id == Len(c.handles) + 1
             c1 == [c EXCEPT !.handles = Append(@, NewHandle(c.post_data)),
                             !.running_handles = @ + 1]
         IN  IF o = "add_rejected"
             THEN [c1 EXCEPT !.outcome = "throw"]
             ELSE [c1 EXCEPT !.handles = curl_multi_add_handle(@, id)]

\* (mutant) the count is left to the next curl_multi_perform
write_metrics_not_counting(c, o) ==
    IF o = "easy_init_null"
    THEN [c EXCEPT !.outcome = "throw"]
    ELSE LET id == Len(c.handles) + 1
             c1 == [c EXCEPT !.handles = Append(@, NewHandle(c.post_data))]
         IN  IF o = "add_rejected"
             THEN [c1 EXCEPT !.outcome = "throw"]
             ELSE [c1 EXCEPT !.handles = curl_multi_add_handle(@, id),
                             !.post_data = <<>>]

\* (mutant) finished requests are reaped before the new one is submitted
write_metrics_reaping(c, o) ==
    LET c0 == DrainLoop(c, FALSE)
    IN  IF o = "easy_init_null"
        THEN [c0 EXCEPT !.outcome = "throw"]
        ELSE LET id == Len(c0.handles) + 1
                 c1 == [c0 EXCEPT !.handles = Append(@, NewHandle(c0.post_data)),
                                  !.running_handles = @ + 1]
             IN  IF o = "add_rejected"
                 THEN [c1 EXCEPT !.outcome = "throw"]
                 ELSE [c1 EXCEPT !.handles = curl_multi_add_handle(@, id),
                                 !.post_data = <<>>]

\* influxdb_client::write_metrics
write_metrics(c, o) ==
    IF o = "easy_init_null"
    THEN [c EXCEPT !.outcome = "throw"]
    ELSE LET id == Len(c.handles) + 1
             c1 == [c EXCEPT !.handles = Append(@, NewHandle(c.post_data)),
                             !.running_handles = @ + 1]
         IN  IF o = "add_rejected"
             THEN [c1 EXCEPT !.outcome = "throw"]
             ELSE [c1 EXCEPT !.handles = curl_multi_add_handle(@, id),
                             !.post_data = <<>>]

\* (mutant) > where >= is
add_metric_strictly_above(c, line, max, o) ==
    LET c1 == [c EXCEPT !.post_data = @ \o line]
    IN  IF Len(c1.post_data) > max THEN write_metrics(c1, o) ELSE c1

\* influxdb_client::add_metric, given the line get_line returned
add_metric(c, line, max, o) ==
    LET c1 == [c EXCEPT !.post_data = @ \o line]
    IN  IF Len(c1.post_data) >= max THEN write_metrics(c1, o) ELSE c1

\* (mutant) >= where > is
is_active_from_zero(c) == c.running_handles >= 0

\* influxdb_client::is_active
is_active(c) == c.running_handles > 0

\* influxdb_client::get_failures
get_failures(c) == c.failed_transfers

\* (mutant) the count is reset with the list
clear_failures_and_count(c) == [c EXCEPT !.failed_transfers = <<>>, !.running_handles = 0]

\* influxdb_client::clear_failures
clear_failures(c) == [c EXCEPT !.failed_transfers = <<>>]

(* ------------------------------ the calls ----------------------------- *)

\* The object exists and the process runs
Alive == ~crashed /\ mhandle = "valid"

\* One more call of the run
Tick == ncalls < MaxCalls /\ ncalls' = ncalls + 1

UpdateCall ==
    /\ Alive
    /\ \E done \in SUBSET IdsIn(handles, "Active") :
       \E failed \in SUBSET done :
       \E rcode \in PerformCodes :
          Ends("update", rcode, update(Self, save_failures, done, failed, rcode), "void")
    /\ UNCHANGED <<crashed, lines>>

WriteMetricsCall ==
    /\ Alive
    /\ \E o \in SubmitOutcomes :
          Ends("write_metrics", o, write_metrics(Self, o), "void")
    /\ UNCHANGED <<crashed, lines>>

AddMetricCall(m) ==
    /\ Alive
    /\ \E r \in get_line(m, ts_precision) :
          IF r.crash
          THEN /\ crashed' = TRUE
               /\ Ends("add_metric", m, [Self EXCEPT !.outcome = "crash"], "void")
               /\ UNCHANGED lines
          ELSE /\ crashed' = FALSE
               /\ lines' = lines \o r.line
               /\ \E o \in SubmitOutcomes :
                     Ends("add_metric", m, add_metric(Self, r.line, max_buffer, o), "void")

IsActiveCall ==
    /\ Alive
    /\ Ends("is_active", "none", Self, is_active(Self))
    /\ UNCHANGED <<crashed, lines>>

Update == Tick /\ UpdateCall

WriteMetrics == Tick /\ WriteMetricsCall

AddMetric == Tick /\ \E m \in Metrics : AddMetricCall(m)

IsActive == Tick /\ IsActiveCall

GetFailures ==
    /\ Tick
    /\ Alive
    /\ Ends("get_failures", "none", Self, get_failures(Self))
    /\ UNCHANGED <<crashed, lines>>

ClearFailures ==
    /\ Tick
    /\ Alive
    /\ Ends("clear_failures", "none", clear_failures(Self), "void")
    /\ UNCHANGED <<crashed, lines>>

\* influxdb_client::~influxdb_client: curl_multi_cleanup and nothing else.  The
\* multi handle and its message queue are freed; curl_multi_cleanup does not
\* free the easy handles still attached, and nothing else here does.
Destroy ==
    /\ Tick
    /\ Alive
    /\ mhandle' = "cleaned"
    /\ msgq' = <<>>
    /\ last' = [op |-> "destructor", arg |-> "none", outcome |-> "return", ret |-> "void"]
    /\ UNCHANGED <<ts_precision, max_buffer, save_failures, post_data,
                   failed_transfers, running_handles, prev_running_handles, cmsg,
                   handles, crashed, lines, metric>>

Next ==
    \/ Update
    \/ WriteMetrics
    \/ AddMetric
    \/ IsActive
    \/ GetFailures
    \/ ClearFailures
    \/ Destroy

Spec == Init /\ [][Next]_vars

(* --------------------------- the poll loop ---------------------------- *)

\* main.cpp: the caller adds metrics, writes them, and then polls:
\*     client.write_metrics();
\*     while (client.is_active()) { client.update(); }
\* Where the caller stands is told by the call that ended last.  An exception
\* is caught nowhere: a call that throws ends the run.

\* lines 13-22: one more add_metric
LoopAddMetric ==
    /\ last.op \in {"constructor", "add_metric"}
    /\ last.outcome = "return"
    /\ Tick
    /\ \E m \in Metrics : AddMetricCall(m)

\* line 25
LoopWriteMetrics ==
    /\ last.op \in {"constructor", "add_metric"}
    /\ last.outcome = "return"
    /\ WriteMetricsCall
    /\ UNCHANGED ncalls

\* line 27: the loop's test, after write_metrics and after each update
LoopIsActive ==
    /\ last.op \in {"write_metrics", "update"}
    /\ last.outcome = "return"
    /\ IsActiveCall
    /\ UNCHANGED ncalls

\* line 28: the loop's body
LoopUpdate ==
    /\ last.op = "is_active"
    /\ last.ret = TRUE
    /\ UpdateCall
    /\ UNCHANGED ncalls

LoopNext ==
    \/ LoopAddMetric
    \/ LoopWriteMetrics
    \/ LoopIsActive
    \/ LoopUpdate

LoopSpec == Init /\ [][LoopNext]_vars

(* ------------------- class client of client.hpp ----------------------- *)

\* The split headers' client has the members post_data, running_handles,
\* prev_running_handles, cmsg and mhandle; it has no flush threshold and no
\* failure list, and none of its operations throws.

\* client::client: post_data.reserve(2048) is capacity, not a threshold
SplitInit ==
    /\ ts_precision \in ClientPrecisions
    /\ max_buffer = DefaultBufferSize
    /\ save_failures = FALSE
    /\ post_data = <<>>
    /\ failed_transfers = <<>>
    /\ running_handles = 0
    /\ prev_running_handles = Indeterminate
    /\ cmsg = Indeterminate
    /\ handles = <<>>
    /\ msgq = <<>>
    /\ crashed = FALSE
    /\ last = [op |-> "constructor", arg |-> "none", outcome |-> "return", ret |-> "void"]
    /\ lines = <<>>
    /\ ncalls = 0
    /\ mhandle = "valid"
    /\ metric = NoMetric

\* client::update.  curl_multi_perform's return code is ignored.  The branch
\* is taken when the count has grown.  In it curl_multi_info_read is called
\* once, before the do-while: with no message the body does nothing and the
\* loop ends; with a message the handle is removed and cleaned up and the
\* loop goes round again on the same message, removing and cleaning up a
\* handle already freed, which is undefined: the call never returns or the
\* process is brought down.  The result is the set of outcomes.
client_update(c, done, failed) ==
    LET c1 == [c EXCEPT !.prev_running_handles = c.running_handles]
        c2 == curl_multi_perform(c1, done, failed)
    IN  IF c2.prev_running_handles < c2.running_handles
        THEN IF c2.msgq = <<>>
             THEN {[c2 EXCEPT !.cmsg = NULL]}
             ELSE LET id == Head(c2.msgq)
                      c3 == [c2 EXCEPT !.msgq = Tail(@),
                                       !.cmsg = id,
                                       !.handles = RemoveAndCleanup(@, id)]
                  IN  {[c3 EXCEPT !.outcome = "hang"], [c3 EXCEPT !.outcome = "crash"]}
        ELSE {c2}

\* client::add_metric: append, nothing else
client_add_metric(c, line) == [c EXCEPT !.post_data = @ \o line]

\* client::write_metrics: without an easy handle nothing happens; with one the
\* count goes up, the result of curl_multi_add_handle is ignored and the
\* buffer is cleared
client_write_metrics(c, o) ==
    IF o = "easy_init_null"
    THEN c
    ELSE LET id == Len(c.handles) + 1
             c1 == [c EXCEPT !.handles = Append(@, NewHandle(c.post_data)),
                             !.running_handles = @ + 1,
                             !.post_data = <<>>]
         IN  IF o = "add_rejected"
             THEN c1
             ELSE [c1 EXCEPT !.handles = curl_multi_add_handle(@, id)]

\* client::is_active
client_is_active(c) == c.running_handles > 0

\* The object exists, the process runs and the last call came back
SplitAlive == Alive /\ last.outcome = "return"

SplitUpdate ==
    /\ Tick
    /\ SplitAlive
    /\ \E done \in SUBSET IdsIn(handles, "Active") :
       \E failed \in SUBSET done :
       \E c \in client_update(Self, done, failed) :
          /\ Ends("update", "none", c, "void")
          /\ crashed' = (c.outcome = "crash")
    /\ UNCHANGED lines

SplitWriteMetrics ==
    /\ Tick
    /\ SplitAlive
    /\ \E o \in SubmitOutcomes :
          Ends("write_metrics", o, client_write_metrics(Self, o), "void")
    /\ UNCHANGED <<crashed, lines>>

SplitAddMetric ==
    /\ Tick
    /\ SplitAlive
    /\ \E m \in Metrics : \E r \in get_line(m, ts_precision) :
          IF r.crash
          THEN /\ crashed' = TRUE
               /\ Ends("add_metric", m, [Self EXCEPT !.outcome = "crash"], "void")
               /\ UNCHANGED lines
          ELSE /\ crashed' = FALSE
               /\ lines' = lines \o r.line
               /\ Ends("add_metric", m, client_add_metric(Self, r.line), "void")

SplitIsActive ==
    /\ Tick
    /\ SplitAlive
    /\ Ends("is_active", "none", Self, client_is_active(Self))
    /\ UNCHANGED <<crashed, lines>>

SplitNext ==
    \/ SplitUpdate
    \/ SplitWriteMetrics
    \/ SplitAddMetric
    \/ SplitIsActive

SplitSpec == SplitInit /\ [][SplitNext]_vars

(* ----------------- building a metric and adding it -------------------- *)

\* parts (tags and fields) the caller gives one metric
MaxParts == 3

\* The instants metrics are created at, per precision: those whose count in
\* that precision fits TLC's integers
Seconds == {1, 3599, 7261}
NanoSeconds == {0, 999999999}
TimePoints(p) ==
    {[sec |-> s, nsec |-> n] : s \in IF p \in {"nano", "micro"} THEN {1} ELSE Seconds,
                               n \in NanoSeconds}

\* What the caller passes to add_tag and add_field
Keys == {<<"k">>}
TagValues == {<<"x">>, <<"\"", " ">>}
NumericValues == {<<"1">>, <<"true">>}
StringValues ==
    {<<>>, <<"a">>, <<"\"">>, <<"\\", "\"">>, <<"a", "\"", ",", " ", "\n", "\"">>}

\* A client with the default buffer size and the caller's metric, just constructed
EncInit ==
    /\ ts_precision \in Precisions
    /\ max_buffer = DefaultBufferSize
    /\ save_failures = FALSE
    /\ post_data = <<>>
    /\ failed_transfers = <<>>
    /\ running_handles = 0
    /\ prev_running_handles = Indeterminate
    /\ cmsg = Indeterminate
    /\ handles = <<>>
    /\ msgq = <<>>
    /\ crashed = FALSE
    /\ last = [op |-> "constructor", arg |-> "none", outcome |-> "return", ret |-> "void"]
    /\ lines = <<>>
    /\ ncalls = 0
    /\ mhandle = "valid"
    /\ metric \in {NewMetric(<<"m">>, t) : t \in TimePoints(ts_precision)}

\* The caller's call `op` with key and value turns the metric into `m`
Builds(op, key, val, m) ==
    /\ last.op # "add_metric"
    /\ Len(metric.tags) + Len(metric.fields) < MaxParts
    /\ metric' = m
    /\ last' = [op |-> op, arg |-> [key |-> key, val |-> val],
                outcome |-> "return", ret |-> "void"]
    /\ UNCHANGED <<ts_precision, max_buffer, save_failures, post_data,
                   failed_transfers, running_handles, prev_running_handles, cmsg,
                   handles, msgq, crashed, lines, ncalls, mhandle>>

AddTag ==
    \E k \in Keys : \E v \in TagValues : Builds("add_tag", k, v, add_tag(metric, k, v))

AddField ==
    \E k \in Keys : \E v \in NumericValues :
       Builds("add_field", k, v, add_field(metric, k, v))

AddFieldString ==
    \E k \in Keys : \E v \in StringValues :
       Builds("add_field_string", k, v, add_field_string(metric, k, v))

\* client.add_metric(m): the metric is consumed once
AddBuiltMetric ==
    /\ last.op # "add_metric"
    /\ AddMetricCall(metric)
    /\ UNCHANGED ncalls

EncNext ==
    \/ AddTag
    \/ AddField
    \/ AddFieldString
    \/ AddBuiltMetric

EncSpec == EncInit /\ [][EncNext]_vars

(* ----------------------------- properties ----------------------------- *)

IsPrefix(s, t) == Len(s) <= Len(t) /\ SubSeq(t, 1, Len(s)) = s

\* The states a request passes through, in order
Lifecycle == <<"Created", "Active", "Completed", "Released">>

\* The bodies of the requests registered so far, concatenated in submission order
RECURSIVE SentBodies(_)
SentBodies(hs) ==
    IF hs = <<>> THEN <<>>
    ELSE SentBodies(SubSeq(hs, 1, Len(hs) - 1))
         \o (IF Len(hs[Len(hs)].trace) >= 2 THEN hs[Len(hs)].body ELSE <<>>)

\* The number of lines in a text
RECURSIVE CountLines(_)
CountLines(text) ==
    IF text = <<>> THEN 0
    ELSE (IF Head(text) = "\n" THEN 1 ELSE 0) + CountLines(Tail(text))

\* The handles released by the step, and those among them that failed
NewlyReleased == IdsIn(handles', "Released") \ IdsIn(handles, "Released")
NewlyReleasedFailed == {i \in NewlyReleased : handles'[i].result # CURLE_OK}

\* The step registers a request with the multi handle
Submits == Registered(handles') # Registered(handles)

\* The line the step appended (add_metric steps)
Appended == SubSeq(lines', Len(lines) + 1, Len(lines'))

\* C1: after any sequence of calls the active-request count is never negative,
\* and what is_active returned is true exactly when the count is above 0.
C1_ActiveCount ==
    /\ running_handles >= 0
    /\ last.op = "is_active" => (last.ret <=> running_handles > 0)

\* C1 witness: is_active has answered false after a request came and went
C1_Witness ==
    /\ last.op = "is_active"
    /\ last.ret = FALSE
    /\ IdsIn(handles, "Released") # {}

\* C2: when an update call returns having seen the count decrease, no finished
\* request is left: the completion queue is empty and every finished request
\* has been removed and released, however many there were.
C2_FullDrain ==
    (last.op = "update" /\ last.outcome = "return"
       /\ running_handles < prev_running_handles)
    => (msgq = <<>> /\ IdsIn(handles, "Completed") = {})

\* C2 witness: one update call saw two requests finish and released both
C2_Witness ==
    /\ last.op = "update"
    /\ last.outcome = "return"
    /\ IdsIn(handles, "Created") = {}
    /\ prev_running_handles - running_handles >= 2
    /\ Cardinality(IdsIn(handles, "Released")) >= 2
    /\ msgq = <<>>

\* C3 (as the specification states it): write_metrics on an empty buffer
\* creates no request and leaves the active-request count as it was.
C3_EmptyFlushIsNoOp ==
    [][(last'.op = "write_metrics" /\ post_data = <<>>)
         => (handles' = handles /\ running_handles' = running_handles)]_vars

\* C4: an add_metric call that returns normally has submitted exactly one
\* request, holding the whole buffer, and left the buffer empty if the buffer
\* with the new line reached the threshold; otherwise it has submitted nothing
\* and the line is at the end of the buffer.
C4_AutoFlush ==
    [][(last'.op = "add_metric" /\ last'.outcome = "return")
         => IF Len(post_data \o Appended) >= max_buffer
            THEN /\ Len(handles') = Len(handles) + 1
                 /\ SubSeq(handles', 1, Len(handles)) = handles
                 /\ handles'[Len(handles')].state = "Active"
                 /\ handles'[Len(handles')].body = post_data \o Appended
                 /\ post_data' = <<>>
            ELSE /\ handles' = handles
                 /\ post_data' = post_data \o Appended]_vars

\* C4 witness: the second add_metric reached the threshold and flushed both lines
C4_Witness ==
    /\ last.op = "add_metric"
    /\ last.outcome = "return"
    /\ post_data = <<>>
    /\ Len(handles) = 1
    /\ handles[1].state = "Active"
    /\ CountLines(handles[1].body) = 2
    /\ Len(handles[1].body) >= max_buffer

\* C5: the bodies of the requests submitted so far, in submission order,
\* followed by the pending buffer are the lines given to the client so far, in
\* insertion order; and after an explicit flush the buffer is empty, so the
\* request just submitted ends with the last line added.
C5_NoLineLost ==
    /\ SentBodies(handles) \o post_data = lines
    /\ (last.op = "write_metrics" /\ last.outcome = "return") => post_data = <<>>

\* C5 witness: two metrics below the threshold, then one flush: one request
\* whose body is the two lines
C5_Witness ==
    /\ last.op = "write_metrics"
    /\ last.outcome = "return"
    /\ Len(handles) = 1
    /\ handles[1].body = lines
    /\ CountLines(lines) = 2
    /\ post_data = <<>>

\* C6: with capture off the failure list stays empty; with capture on, a step
\* adds one entry for each failed request update releases in it, and nothing
\* for a request that succeeded.
C6_FailureCapture ==
    [][IF save_failures
       THEN last'.op # "clear_failures"
            => failed_transfers' =
                 failed_transfers
                 \o [k \in 1..Cardinality(NewlyReleasedFailed) |->
                       curl_easy_strerror(CURLE_COULDNT_CONNECT)]
       ELSE failed_transfers' = <<>>]_vars

\* C6 witness: capture on, one update released a failed and a successful
\* request, and the list holds exactly one entry
C6_Witness ==
    /\ save_failures
    /\ last.op = "update"
    /\ Len(failed_transfers) = 1
    /\ \E i, j \in IdsIn(handles, "Released") :
          handles[i].result = CURLE_OK /\ handles[j].result # CURLE_OK
    /\ Cardinality(IdsIn(handles, "Released")) = 2

\* C7: clear_failures empties the list and changes neither the count, the
\* buffer nor any request; no other call removes an entry from the list.
C7_ClearFailures ==
    [][IF last'.op = "clear_failures"
       THEN /\ failed_transfers' = <<>>
            /\ UNCHANGED <<running_handles, post_data, handles, msgq>>
       ELSE IsPrefix(failed_transfers, failed_transfers')]_vars

\* C7 witness: a recorded failure was cleared while another request is active
C7_Witness ==
    /\ last.op = "clear_failures"
    /\ save_failures
    /\ failed_transfers = <<>>
    /\ \E i \in IdsIn(handles, "Released") : handles[i].result # CURLE_OK
    /\ running_handles > 0
    /\ IdsIn(handles, "Active") # {}

\* C8: a step that registers a request raises the count by exactly one in that
\* same step, so is_active holds right after it, before any update.
C8_OptimisticCount ==
    [][Submits
         => /\ running_handles' = running_handles + 1
            /\ is_active([running_handles |-> running_handles'])]_vars

\* C8 witness: the first write_metrics has returned, update was never called,
\* and the count is already 1
C8_Witness ==
    /\ last.op = "write_metrics"
    /\ last.outcome = "return"
    /\ prev_running_handles = Indeterminate
    /\ Len(handles) = 1
    /\ handles[1].state = "Active"
    /\ running_handles = 1

\* C9: every request goes Created, Active, Completed, Released, each at most
\* once and in that order; no step takes a request back; and a request is
\* registered exactly by a flush (explicit or automatic) that returns.
C9_Lifecycle ==
    [][/\ \A i \in DOMAIN handles' :
             /\ IsPrefix(handles'[i].trace, Lifecycle)
             /\ handles'[i].state = handles'[i].trace[Len(handles'[i].trace)]
       /\ \A i \in DOMAIN handles :
             /\ i \in DOMAIN handles'
             /\ IsPrefix(handles[i].trace, handles'[i].trace)
       /\ Cardinality(Registered(handles')) - Cardinality(Registered(handles))
            = IF \/ last'.op = "write_metrics" /\ last'.outcome = "return"
                 \/ /\ last'.op = "add_metric" /\ last'.outcome = "return"
                    /\ Len(post_data \o Appended) >= max_buffer
              THEN 1 ELSE 0]_vars

\* C9 witness: a request failed and was released, and a later update that
\* started with nothing active left it released
C9_Witness ==
    /\ last.op = "update"
    /\ prev_running_handles = 0
    /\ running_handles = 0
    /\ \E i \in DOMAIN handles :
          handles[i].trace = Lifecycle /\ handles[i].result # CURLE_OK

\* C10 (as the specification states it): add_metric on a metric with no field
\* ends in an encoding error.
C10_EmptyFieldsIsAnError ==
    (last.op = "add_metric" /\ last.arg.fields = <<>>)
    => last.outcome = "encoding_error"

\* Every request that was registered with the multi handle has been released
AllReleased == \A i \in Registered(handles) : handles[i].state = "Released"

\* C11 (as the specification states it): once the destructor has run, no
\* request that was registered with the multi handle is left unreleased.
C11_DestructorReleases ==
    last.op = "destructor" => AllReleased

\* The requests that finished in the step, and those among them that failed
NewlyFinished ==
    {i \in DOMAIN handles :
       handles[i].state = "Active" /\ handles'[i].state \in {"Completed", "Released"}}
NewlyFinishedFailed == {i \in NewlyFinished : handles'[i].result # CURLE_OK}

\* C12: an update call in which requests finish without success, and in which
\* curl_multi_perform itself reports no error, returns normally, has released
\* every finished request, and has told of the failures through the failure
\* list alone (one entry for each failed request it released with capture on,
\* nothing with capture off).
C12_FailuresDoNotInterrupt ==
    [][(last'.op = "update" /\ last'.arg = "CURLM_OK" /\ NewlyFinishedFailed # {})
         => /\ last'.outcome = "return"
            /\ last'.ret = "void"
            /\ msgq' = <<>>
            /\ IdsIn(handles', "Completed") = {}
            /\ NewlyFinished \subseteq IdsIn(handles', "Released")
            /\ Len(failed_transfers') - Len(failed_transfers)
                 = IF save_failures THEN Cardinality(NewlyReleasedFailed) ELSE 0]_vars

\* C12 witness: an update saw two requests fail, returned, and left two entries
C12_Witness ==
    /\ last.op = "update"
    /\ last.outcome = "return"
    /\ save_failures
    /\ Len(failed_transfers) = 2
    /\ Cardinality({i \in IdsIn(handles, "Released") : handles[i].result # CURLE_OK}) = 2
    /\ prev_running_handles - running_handles = 2

(* ---------------------------- line encoding ---------------------------- *)

\* The texts of `ss` one after the other
RECURSIVE Concat(_)
Concat(ss) ==
    IF ss = <<>> THEN <<>> ELSE Concat(SubSeq(ss, 1, Len(ss) - 1)) \o ss[Len(ss)]

\* The line protocol's layout of a metric with at least one field
Layout(m, stamp) ==
    m.measurement
    \o Concat([i \in 1..Len(m.tags) |-> <<",">> \o m.tags[i]])
    \o <<" ">>
    \o Concat([i \in 1..Len(m.fields) |->
                  IF i = 1 THEN m.fields[i] ELSE <<",">> \o m.fields[i]])
    \o <<" ">> \o stamp \o <<"\n">>

\* C13: every add_tag and add_field puts its entry after the ones already
\* there and leaves those alone (so order is insertion order and duplicates
\* stay), and add_metric of a metric with at least one field appends to the
\* buffer the measurement, each tag after a comma, one space, the fields with
\* single commas between them, one space, the timestamp and a newline.
C13_LineLayout ==
    [][ /\ last'.op = "add_tag" =>
             /\ IsPrefix(metric.tags, metric'.tags)
             /\ Len(metric'.tags) = Len(metric.tags) + 1
             /\ metric'.fields = metric.fields
        /\ last'.op \in {"add_field", "add_field_string"} =>
             /\ IsPrefix(metric.fields, metric'.fields)
             /\ Len(metric'.fields) = Len(metric.fields) + 1
             /\ metric'.tags = metric.tags
        /\ (last'.op = "add_metric" /\ metric.fields # <<>>) =>
             /\ last'.outcome = "return"
             /\ post_data' = post_data
                  \o Layout(metric, FormatUInt(get_timestamp(metric, ts_precision)))
      ]_vars

\* a metric with a tag and the same field twice has been added
C13_Witness ==
    /\ last.op = "add_metric"
    /\ Len(metric.tags) = 1
    /\ Len(metric.fields) = 2
    /\ metric.fields[1] = metric.fields[2]
    /\ post_data # <<>>

\* `val` with a backslash put before each of its double quotes, nothing else touched
QuotesEscaped(val) ==
    Concat([i \in 1..Len(val) |->
               IF val[i] = "\"" THEN <<"\\", "\"">> ELSE <<val[i]>>])

\* C14: add_field of a string value enters key="value", the value between
\* double quotes with a backslash put before each double quote in it and every
\* other character (backslash, newline, comma, space) as it was; add_tag of a
\* string value enters key=value with the value as it was, unquoted.
C14_StringEscaping ==
    [][ /\ last'.op = "add_field_string" =>
             metric'.fields[Len(metric'.fields)] =
                 last'.arg.key \o <<"=">> \o <<"\"">>
                     \o QuotesEscaped(last'.arg.val) \o <<"\"">>
        /\ last'.op = "add_tag" =>
             metric'.tags[Len(metric'.tags)] =
                 last'.arg.key \o <<"=">> \o last'.arg.val
      ]_vars

\* a string field holding quotes, a comma, a space and a newline has been
\* added to a metric whose tag has a quote and a space
C14_Witness ==
    /\ last.op = "add_field_string"
    /\ last.arg.val = <<"a", "\"", ",", " ", "\n", "\"">>
    /\ metric.tags = << <<"k", "=", "\"", " ">> >>
    /\ Len(metric.fields[Len(metric.fields)]) = 12

(* ------------------------------ timestamps ----------------------------- *)

\* The number a text of decimal digits denotes
RECURSIVE ParseUInt(_)
ParseUInt(s) ==
    IF s = <<>> THEN 0
    ELSE 10 * ParseUInt(SubSeq(s, 1, Len(s) - 1))
         + (CHOOSE d \in 0..9 : Digits[d + 1] = s[Len(s)])

\* The timestamp of an encoded line: what stands between its last space and
\* the newline that ends it
StampOf(line) ==
    LET sp == CHOOSE i \in 1..Len(line) :
                 line[i] = " " /\ \A j \in (i + 1)..Len(line) : line[j] # " "
    IN  ParseUInt(SubSeq(line, sp + 1, Len(line) - 1))

\* q is the quotient, rounded towards zero, of the instant t (t.sec seconds
\* and t.nsec nanoseconds since the epoch) by a unit of which there are
\* perSecond in a second
TruncatedToFraction(q, t, perSecond) ==
    LET nanos == 1000000000 \div perSecond
    IN  /\ q \div perSecond = t.sec
        /\ (q % perSecond) * nanos <= t.nsec
        /\ t.nsec < ((q % perSecond) + 1) * nanos

\* q is the quotient, rounded towards zero, of the instant t by a unit of
\* `seconds` whole seconds
TruncatedToSeconds(q, t, seconds) ==
    q * seconds <= t.sec /\ t.sec < (q + 1) * seconds

\* C15: the timestamp of the line add_metric appends is the creation instant
\* divided by the unit of the client's precision, the quotient cut off, never
\* rounded up: nano, micro, milli and second are 10^9, 10^6, 10^3 and 1 to the
\* second, minute and hour are 60 and 3600 seconds.
C15_TimestampTruncates ==
    [][ (last'.op = "add_metric" /\ last'.outcome = "return" /\ metric.fields # <<>>) =>
          LET line == SubSeq(post_data', Len(post_data) + 1, Len(post_data'))
              q    == StampOf(line)
              t    == metric.timestamp
          IN  /\ IsPrefix(post_data, post_data')
              /\ ts_precision = "nano"   => TruncatedToFraction(q, t, 1000000000)
              /\ ts_precision = "micro"  => TruncatedToFraction(q, t, 1000000)
              /\ ts_precision = "milli"  => TruncatedToFraction(q, t, 1000)
              /\ ts_precision = "second" => TruncatedToFraction(q, t, 1)
              /\ ts_precision = "minute" => TruncatedToSeconds(q, t, 60)
              /\ ts_precision = "hour"   => TruncatedToSeconds(q, t, 3600)
      ]_vars

\* a metric created a nanosecond before the full hour has been added by a
\* client counting minutes
C15_Witness ==
    /\ last.op = "add_metric"
    /\ last.outcome = "return"
    /\ metric.fields # <<>>
    /\ ts_precision = "minute"
    /\ metric.timestamp = [sec |-> 3599, nsec |-> 999999999]
    /\ StampOf(post_data) = 59

(* --------------------------- requests at rest -------------------------- *)

\* C19 (as the specification states it): whenever is_active() is false for a
\* client, every request that was registered with the multi handle has been
\* removed from it and released, whatever calls came before, an update that
\* raised a multi error included.
C19_InactiveMeansReleased ==
    (Alive /\ ~is_active(Self)) => AllReleased

\* C18 (as the specification states it): a write_metrics call that fails,
\* because no request object could be created or because the multi handle
\* rejected it, leaves the client as it was: the active-request count is not
\* raised, the buffer still holds the unsent lines, and no request object
\* that was created is left unreleased.
C18_FailedSubmitChangesNothing ==
    [][(last'.op = "write_metrics" /\ last'.outcome = "throw")
         => /\ running_handles' = running_handles
            /\ post_data' = post_data
            /\ IdsIn(handles', "Created") = {}]_vars

(* ------------------------ where progress happens ----------------------- *)

\* The step leaves every request that existed, and the message queue, as they were
RequestsUntouched ==
    /\ Len(handles') >= Len(handles)
    /\ \A i \in DOMAIN handles : handles'[i] = handles[i]
    /\ msgq' = msgq

\* C17: only update moves requests on.  is_active, get_failures and
\* clear_failures leave every request and the active-request count as they
\* were and add nothing to the failure list, and so does an add_metric that
\* stays below the flush threshold; write_metrics, and an add_metric that
\* flushes, create at most one new request, leave every request that existed
\* in the state it was in, do not lower the count and do not touch the
\* failure list.
C17_ProgressOnlyInUpdate ==
    [][ /\ last'.op \in {"is_active", "get_failures", "clear_failures"} =>
             /\ handles' = handles
             /\ msgq' = msgq
             /\ running_handles' = running_handles
             /\ failed_transfers' \in {failed_transfers, <<>>}
        /\ (last'.op = "add_metric" /\ ~crashed'
              /\ Len(post_data) + (Len(lines') - Len(lines)) < max_buffer) =>
             /\ handles' = handles
             /\ msgq' = msgq
             /\ running_handles' = running_handles
             /\ failed_transfers' = failed_transfers
        /\ last'.op \in {"write_metrics", "add_metric"} =>
             /\ RequestsUntouched
             /\ Len(handles') <= Len(handles) + 1
             /\ running_handles' >= running_handles
             /\ failed_transfers' = failed_transfers
      ]_vars

\* a second request has been submitted while the first, finished in an update
\* that raised, still waits to be reaped
C17_Witness ==
    /\ last.op = "write_metrics"
    /\ last.outcome = "return"
    /\ Len(handles) = 2
    /\ handles[1].state = "Completed"
    /\ handles[2].state = "Active"
    /\ msgq = <<1>>

(* ------------------------- the end of the loop ------------------------- *)

\* The poll loop has been left: its test came out false, or update raised
LoopLeft ==
    \/ last.op = "is_active" /\ last.ret = FALSE
    \/ last.op = "update" /\ last.outcome = "throw"

\* C16 (as the specification states it): when the poll loop is over and
\* is_active() is false, every request that was submitted has been released.
C16_LoopEndsReleased ==
    (LoopLeft /\ ~is_active(Self)) => AllReleased

(* ------------------------ client.hpp's update -------------------------- *)

\* C20 (as the comment in client::update states it): an update call that
\* finds the number of running transfers dropped returns, and leaves no
\* completed transfer in the multi handle: each has been removed and cleaned up.
C20_SplitUpdateRemovesCompleted ==
    (last.op = "update" /\ running_handles < prev_running_handles)
    => /\ last.outcome = "return"
       /\ IdsIn(handles, "Completed") = {}
       /\ msgq = <<>>

====
